---- MODULE Spec2Model ----
(***************************************************************************)
(* The /ask request flow of the legal RAG backend.                         *)
(*                                                                         *)
(* Two revisions of the program are modelled, selected by the variable rev *)
(* (a process runs one of them for its whole life):                        *)
(*   "server"   - src/server.js                                            *)
(*   "fallback" - the fallback-tolerant revision, src/unnamed/part_002     *)
(*                lines 251-519                                            *)
(* A request is a process that runs to completion between awaits; every    *)
(* action below is one such run-to-completion segment, of the handler or   *)
(* of getEmbedding / getCollection, which the handler awaits in turn.  The *)
(* settlement of an awaited collaborator is taken together with the        *)
(* continuation it wakes.                                                  *)
(***************************************************************************)
EXTENDS Integers, Sequences, FiniteSets, TLC

VARIABLES rev, embedder, pipelineCalls, collection, collectionCalls,
          hits, health, req

vars == <<rev, embedder, pipelineCalls, collection, collectionCalls,
          hits, health, req>>

(***************************************************************************)
(* Bounds of the model.                                                    *)
(***************************************************************************)
\* pipeline(...) / getOrCreateCollection(...) invocations explored
MaxInits == 2
\* /ask arrivals explored by Spec, and by SpecRate for the second caller
MaxAsks == 2
\* arrivals beyond the limit explored by SpecRate
MaxOver == 2
\* GET /health requests explored
MaxHealth == 1

\* mutant: the limit is off by one
RateMaxPlusOne == 30 + 1

\* src/server.js:117  max: 30
RateMax == 30
\* src/server.js:128  question.length > 500
MaxQuestionLen == 500

\* requests the process handles concurrently
Reqs == {1, 2}
Revisions == {"server", "fallback"}
Callers == {"ip1", "ip2"}

(***************************************************************************)
(* JavaScript values and strings.  A string is a sequence of characters;   *)
(* the fixed words of the prompt are kept as single tokens.                *)
(***************************************************************************)
JSUndefined == [t |-> "undefined", n |-> 0, s |-> <<>>]
JSNull == [t |-> "null", n |-> 0, s |-> <<>>]
JSNumber(k) == [t |-> "number", n |-> k, s |-> <<>>]
JSString(chars) == [t |-> "string", n |-> 0, s |-> chars]

Rep(c, k) == [i \in 1..k |-> c]

\* The code points String.prototype.trim strips besides the five with an
\* escape of their own: U+000B, U+00A0, U+1680, U+FEFF, written as the
\* character itself, and U+2000..U+200A, U+2028, U+2029, U+202F, U+205F,
\* U+3000, written by name.
VT == ""
NBSP == " "
OghamSpace == " "
BOM == "﻿"

UnicodeSpaces ==
    {"\\u2000", "\\u2001", "\\u2002", "\\u2003", "\\u2004", "\\u2005",
     "\\u2006", "\\u2007", "\\u2008", "\\u2009", "\\u200a", "\\u2028",
     "\\u2029", "\\u202f", "\\u205f", "\\u3000"}

\* ECMAScript WhiteSpace and LineTerminator
Whitespace ==
    {" ", "\t", "\n", "\r", "\f", VT, NBSP, OghamSpace, BOM} \cup UnicodeSpaces

\* !value
Falsy(v) ==
    \/ v.t = "undefined"
    \/ v.t = "null"
    \/ v.t = "number" /\ v.n = 0
    \/ v.t = "string" /\ Len(v.s) = 0

\* String.prototype.trim
Trim(s) ==
    LET keep == {i \in 1..Len(s) : s[i] \notin Whitespace}
    IN  IF keep = {} THEN <<>>
        ELSE LET lo == CHOOSE i \in keep : \A j \in keep : i <= j
                 hi == CHOOSE i \in keep : \A j \in keep : i >= j
             IN  SubSeq(s, lo, hi)

NULL == "<null>"
Absent == "<absent>"
AbsentSeq == <<"<absent>">>

\* mutant: the length rule is missing
validateQuestionNoLength(question) ==
    IF Falsy(question) \/ question.t # "string" THEN "Pregunta inválida"
    ELSE IF Len(Trim(question.s)) = 0 THEN "Pregunta vacía"
    ELSE NULL

\* mutant: the kind check tests the type only, not !question
validateQuestionTypeOnly(question) ==
    IF question.t # "string" THEN "Pregunta inválida"
    ELSE IF Len(Trim(question.s)) = 0 THEN "Pregunta vacía"
    ELSE IF Len(question.s) > MaxQuestionLen THEN "Pregunta demasiado larga"
    ELSE NULL

\* mutant: the length rule measures the trimmed text
validateQuestionTrimmedLength(question) ==
    IF Falsy(question) \/ question.t # "string" THEN "Pregunta inválida"
    ELSE IF Len(Trim(question.s)) = 0 THEN "Pregunta vacía"
    ELSE IF Len(Trim(question.s)) > MaxQuestionLen
         THEN "Pregunta demasiado larga"
    ELSE NULL

validateQuestion(question) ==
    IF Falsy(question) \/ question.t # "string" THEN "Pregunta inválida"
    ELSE IF Len(Trim(question.s)) = 0 THEN "Pregunta vacía"
    ELSE IF Len(question.s) > MaxQuestionLen THEN "Pregunta demasiado larga"
    ELSE NULL

(***************************************************************************)
(* Inputs.                                                                 *)
(***************************************************************************)
QEmpty == JSString(<<>>)
QBlank == JSString(<<" ", "\t">>)
QBlankUnicode == JSString(<<NBSP, VT, BOM, "\\u2003", "\\u2028">>)
QTooLong == JSString(Rep("a", MaxQuestionLen + 1))
QValid == JSString(<<" ", "q", "?">>)

RateQuestions == {QEmpty, QValid}

Questions ==
    {JSUndefined, JSNull, JSNumber(0), JSNumber(7), QEmpty, QBlank,
     QBlankUnicode, QTooLong, QValid}

D1 == <<"a">>
D2 == <<"b", "\n", "c">>
D3 == <<"d">>

\* what collection.query resolves to
QueryResult(hasDocs, docs, hasMetas, metas) ==
    [hasDocuments |-> hasDocs, documents |-> docs,
     hasMetadatas |-> hasMetas, metadatas |-> metas]

NoResult == QueryResult(FALSE, <<>>, FALSE, <<>>)

QueryResults ==
    { QueryResult(FALSE, <<>>, FALSE, <<>>),
      QueryResult(FALSE, <<>>, TRUE, << <<"m1">> >>),
      QueryResult(TRUE, <<>>, TRUE, <<>>),
      QueryResult(TRUE, << <<>> >>, TRUE, << <<>> >>),
      QueryResult(TRUE, << <<D2>> >>, FALSE, <<>>),
      QueryResult(TRUE, << <<D2>> >>, TRUE, << <<"m2">> >>),
      QueryResult(TRUE, << <<D3, D1, D2>> >>, TRUE,
                  << <<"m3", "m1", "m2">> >>) }

(***************************************************************************)
(* One request: the handler's locals and what it did and sent.  calls are  *)
(* the external calls it made, in order, and outcomes[i] is how calls[i]   *)
(* settled: "ok" or the message of the exception raised.                   *)
(***************************************************************************)
IdleReq ==
    [ pc |-> "idle", ip |-> "", hitNo |-> 0, validated |-> FALSE,
      question |-> JSUndefined,
      pipeNo |-> 0, colNo |-> 0, colRetry |-> FALSE,
      result |-> NoResult,
      documents |-> <<>>, metadatas |-> <<>>, hasContext |-> TRUE,
      calls |-> <<>>, outcomes |-> <<>>, llmUser |-> <<>>,
      jsonCalls |-> <<>>, responses |-> <<>>,
      caught |-> Absent, errorLogged |-> FALSE, warned |-> FALSE,
      logCalls |-> 0, mkdir |-> "none", append |-> "none",
      rejected |-> FALSE ]

Body(status, error, detail, question, answer, sources, mode) ==
    [ status |-> status, error |-> error, detail |-> detail,
      question |-> question, answer |-> answer, sources |-> sources,
      mode |-> mode ]

\* res.status(s).json(body): Express refuses to write a second response
\* (setHeader throws ERR_HTTP_HEADERS_SENT); thrown from the catch block
\* the exception rejects the handler's promise.
ResJson(q, body) ==
    IF Len(q.responses) = 0
    THEN [q EXCEPT !.jsonCalls = Append(@, body.status),
                   !.responses = Append(@, body)]
    ELSE [q EXCEPT !.jsonCalls = Append(@, body.status),
                   !.rejected = TRUE]

(***************************************************************************)
(* Exceptions the collaborators can raise (err.message).                   *)
(***************************************************************************)
PipelineError == "pipeline: model load failed"
EmbedError == "embedder: inference failed"
ChromaError == "chroma: getOrCreateCollection failed"
QueryError == "chroma: query failed"
GroqError == "groq: completion failed"
MkdirError == "EACCES: mkdir ./logs"

NoDocsAnswer == "No se encontró información relevante en la base documental."
LLMAnswer == "respuesta del modelo"

(***************************************************************************)
(* askRateLimiter: express-rate-limit with windowMs 15 min, max 30.  The   *)
(* middleware increments the caller's hit count and rejects with 429 when  *)
(* the count exceeds max; the handler is not called then.                  *)
(***************************************************************************)
TotalHits(c) == hits[c] + 1

OverLimit(total) == total > RateMax

LimitedBody ==
    Body(429, "Too many requests, please try again later.", Absent,
         AbsentSeq, Absent, AbsentSeq, Absent)

(***************************************************************************)
(* The catch block of the handler.                                         *)
(***************************************************************************)
\* mutant: the detail is withheld
CatchServerOpaque(q, msg) ==
    ResJson([q EXCEPT !.pc = "done", !.caught = msg, !.errorLogged = TRUE],
            Body(503, "Servicio temporalmente no disponible", Absent,
                 AbsentSeq, Absent, AbsentSeq, Absent))

CatchServer(q, msg) ==
    ResJson([q EXCEPT !.pc = "done", !.caught = msg, !.errorLogged = TRUE],
            Body(503, "Servicio temporalmente no disponible", msg,
                 AbsentSeq, Absent, AbsentSeq, Absent))

CatchFallback(q, msg) ==
    ResJson([q EXCEPT !.pc = "done", !.caught = msg, !.errorLogged = TRUE],
            Body(500, "Error interno", msg,
                 AbsentSeq, Absent, AbsentSeq, Absent))

Catch(q, msg) ==
    IF rev = "server" THEN CatchServer(q, msg) ELSE CatchFallback(q, msg)

(***************************************************************************)
(* logQuery: mkdirSync throws into the caller or the append is issued with *)
(* a callback that ignores its error.                                      *)
(***************************************************************************)
logQuery(q, mkdirOk) ==
    [q EXCEPT !.logCalls = @ + 1,
              !.mkdir = IF mkdirOk THEN "ok" ELSE "failed",
              !.append = IF mkdirOk THEN "pending" ELSE @]

(***************************************************************************)
(* Array.prototype.join and the prompt.                                    *)
(***************************************************************************)
RECURSIVE Join(_, _)
Join(docs, sep) ==
    IF Len(docs) = 0 THEN <<>>
    ELSE IF Len(docs) = 1 THEN docs[1]
    ELSE docs[1] \o sep \o Join(Tail(docs), sep)

\* mutant: documents joined by a single newline
ContextSingleNewline(documents) == Join(documents, <<"\n">>)

Context(documents) == Join(documents, <<"\n", "\n">>)

UserContentRag(context, question) ==
    <<"CONTEXTO:", "\n">> \o context \o <<"\n", "\n", "PREGUNTA:", "\n">>
        \o question

UserContentPlain(question) == <<"PREGUNTA:", "\n">> \o question

\* groq.chat.completions.create(...) is called and awaited
CompletionServer(q) ==
    [q EXCEPT !.pc = "awaitLLM",
              !.calls = Append(@, "llm"),
              !.llmUser = UserContentRag(Context(q.documents), q.question.s)]

CompletionFallback(q) ==
    [q EXCEPT !.pc = "awaitLLM",
              !.calls = Append(@, "llm"),
              !.llmUser = IF q.hasContext
                          THEN UserContentRag(Context(q.documents), q.question.s)
                          ELSE UserContentPlain(q.question.s)]

\* result.documents?.[0] || []
FirstOrEmpty(has, outer) ==
    IF has /\ Len(outer) > 0 THEN outer[1] ELSE <<>>

\* mutant: no early answer when nothing was retrieved
AfterQueryServerNoShortcut(q, result) ==
    CompletionServer(
        [q EXCEPT !.result = result,
                  !.documents = FirstOrEmpty(result.hasDocuments, result.documents),
                  !.metadatas = FirstOrEmpty(result.hasMetadatas, result.metadatas)])

\* the handler after col.query resolved
AfterQueryServer(q, result) ==
    LET documents == FirstOrEmpty(result.hasDocuments, result.documents)
        metadatas == FirstOrEmpty(result.hasMetadatas, result.metadatas)
        q1 == [q EXCEPT !.result = result, !.documents = documents,
                        !.metadatas = metadatas]
    IN  IF Len(documents) = 0
        THEN ResJson([q1 EXCEPT !.pc = "done"],
                     Body(200, Absent, Absent, AbsentSeq, NoDocsAnswer,
                          <<>>, Absent))
        ELSE CompletionServer(q1)

AfterQueryFallback(q, result) ==
    LET documents == FirstOrEmpty(result.hasDocuments, result.documents)
        metadatas == FirstOrEmpty(result.hasMetadatas, result.metadatas)
    IN  CompletionFallback([q EXCEPT !.result = result,
                                     !.documents = documents,
                                     !.metadatas = metadatas])

AfterQuery(q, result) ==
    IF rev = "server" THEN AfterQueryServer(q, result)
    ELSE AfterQueryFallback(q, result)

\* mutant: the completion is asked although the retrieval failed
RetrievalFailedServerGoesOn(q, msg) == CompletionServer(q)

\* getCollection or col.query raised
RetrievalFailedServer(q, msg) == CatchServer(q, msg)

\* mutant: no inner try/catch around the retrieval
RetrievalFailedFallbackThrows(q, msg) == CatchFallback(q, msg)

RetrievalFailedFallback(q, msg) ==
    CompletionFallback([q EXCEPT !.hasContext = FALSE, !.warned = TRUE])

RetrievalFailed(q, msg) ==
    IF rev = "server" THEN RetrievalFailedServer(q, msg)
    ELSE RetrievalFailedFallback(q, msg)

\* mutant: the embedding is computed inside the inner try of the fallback
\* revision
EmbeddingFailedAbsorbed(q, msg) ==
    IF rev = "server" THEN CatchServer(q, msg)
    ELSE RetrievalFailedFallback(q, msg)

\* getEmbedding raised: the handler's outer catch
EmbeddingFailed(q, msg) == Catch(q, msg)

\* the handler after the completion resolved
SuccessServer(q, answer, mkdirOk) ==
    LET sent == ResJson([q EXCEPT !.pc = "done"],
                        Body(200, Absent, Absent, q.question.s, answer,
                             q.metadatas, Absent))
        logged == logQuery(sent, mkdirOk)
    IN  IF mkdirOk THEN logged ELSE CatchServer(logged, MkdirError)

SuccessFallback(q, answer, mkdirOk) ==
    LET sent == ResJson([q EXCEPT !.pc = "done"],
                        Body(200, Absent, Absent, q.question.s, answer,
                             IF q.hasContext THEN q.metadatas ELSE <<>>,
                             IF q.hasContext THEN "rag" ELSE "llm-only"))
        logged == logQuery(sent, mkdirOk)
    IN  IF mkdirOk THEN logged ELSE CatchFallback(logged, MkdirError)

Success(q, answer, mkdirOk) ==
    IF rev = "server" THEN SuccessServer(q, answer, mkdirOk)
    ELSE SuccessFallback(q, answer, mkdirOk)

Init ==
    /\ rev \in Revisions
    /\ embedder = 0
    /\ pipelineCalls = 0
    /\ collection = 0
    /\ collectionCalls = 0
    /\ hits = [c \in Callers |-> 0]
    /\ health = 0
    /\ req = [r \in Reqs |-> IdleReq]

\* an awaited call of the request settles
Settled(q, outcome) == [q EXCEPT !.outcomes = Append(@, outcome)]

(***************************************************************************)
(* getEmbedding up to its first await: the pipeline is constructed when    *)
(* embedder is unset, else the cached embedder is called.                  *)
(***************************************************************************)
getEmbeddingStart(q) ==
    IF embedder = 0
    THEN [q EXCEPT !.pc = "awaitPipeline",
                   !.pipeNo = pipelineCalls + 1,
                   !.calls = Append(@, "pipeline")]
    ELSE [q EXCEPT !.pc = "awaitEmbed",
                   !.calls = Append(@, "embed")]

\* mutant: the cached handle is not consulted
getCollectionStartNoCache(q) ==
    [q EXCEPT !.pc = "awaitCollection",
              !.colNo = collectionCalls + 1,
              !.calls = Append(@, "getOrCreateCollection")]

\* getCollection up to its return or its first await.  colRetry records
\* that every earlier getOrCreateCollection call had already failed when
\* this one was made.
getCollectionStart(q) ==
    IF collection # 0
    THEN [q EXCEPT !.pc = "getCollectionSettled"]
    ELSE [q EXCEPT !.pc = "awaitCollection",
                   !.colNo = collectionCalls + 1,
                   !.colRetry = /\ collectionCalls > 0
                                /\ \A o \in Reqs :
                                      req[o].pc # "awaitCollection",
                   !.calls = Append(@, "getOrCreateCollection")]

\* col.query(...) is called and awaited
queryStart(q) ==
    [q EXCEPT !.pc = "awaitQuery", !.calls = Append(@, "query")]

\* how the function the handler awaits has settled
LastOutcome(q) == q.outcomes[Len(q.outcomes)]

\* A finished request is inspected and its slot freed before the next event
\* is taken.  Freeing a slot touches nothing another request reads, so no
\* interleaving of the handlers is lost.
Quiet == \A r \in Reqs : req[r].pc # "done"

(***************************************************************************)
(* POST /ask passes the limiter: validateQuestion, then getEmbedding.      *)
(***************************************************************************)
Ask(r, c, question) ==
    /\ Quiet
    /\ req[r].pc = "idle"
    /\ ~OverLimit(TotalHits(c))
    /\ hits' = [hits EXCEPT ![c] = TotalHits(c)]
    /\ LET q == [IdleReq EXCEPT !.ip = c, !.hitNo = TotalHits(c),
                                !.validated = TRUE, !.question = question]
           error == validateQuestion(question)
       IN  IF error # NULL
           THEN /\ req' = [req EXCEPT ![r] =
                    ResJson([q EXCEPT !.pc = "done"],
                            Body(400, error, Absent, AbsentSeq, Absent,
                                 AbsentSeq, Absent))]
                /\ UNCHANGED pipelineCalls
           ELSE /\ embedder = 0 => pipelineCalls < MaxInits
                /\ req' = [req EXCEPT ![r] = getEmbeddingStart(q)]
                /\ pipelineCalls' =
                      IF embedder = 0 THEN pipelineCalls + 1 ELSE pipelineCalls
    /\ UNCHANGED <<rev, embedder, collection, collectionCalls, health>>

\* POST /ask over the limit: the limiter answers 429
AskLimited(r, c) ==
    /\ Quiet
    /\ req[r].pc = "idle"
    /\ OverLimit(TotalHits(c))
    /\ TotalHits(c) <= RateMax + MaxOver
    /\ hits' = [hits EXCEPT ![c] = TotalHits(c)]
    /\ req' = [req EXCEPT ![r] =
          ResJson([IdleReq EXCEPT !.pc = "done", !.ip = c,
                                  !.hitNo = TotalHits(c)], LimitedBody)]
    /\ UNCHANGED <<rev, embedder, pipelineCalls, collection, collectionCalls,
                   health>>

\* the limiter's window of a caller ends
WindowReset(c) ==
    /\ Quiet
    /\ hits[c] > 0
    /\ hits' = [hits EXCEPT ![c] = 0]
    /\ UNCHANGED <<rev, embedder, pipelineCalls, collection, collectionCalls,
                   health, req>>

\* GET /health
Health(c) ==
    /\ Quiet
    /\ health < MaxHealth
    /\ health' = health + 1
    /\ UNCHANGED <<rev, embedder, pipelineCalls, collection, collectionCalls,
                   hits, req>>

\* embedder = await pipeline(...): the assignment happens only when the
\* promise resolves
EmbedderAfter(r, ok) == IF ok THEN req[r].pipeNo ELSE embedder

\* mutant: the handle of a failed fetch is stored
CollectionAfterCachesFailure(r, ok) == req[r].colNo

\* collection = await chroma.getOrCreateCollection(...)
CollectionAfter(r, ok) == IF ok THEN req[r].colNo ELSE collection

(***************************************************************************)
(* await pipeline(...) settles inside getEmbedding: the embedder is stored *)
(* and called, or getEmbedding rejects.                                    *)
(***************************************************************************)
PipelineResolve(r, ok) ==
    /\ Quiet
    /\ req[r].pc = "awaitPipeline"
    /\ embedder' = EmbedderAfter(r, ok)
    /\ req' = [req EXCEPT ![r] =
          IF ok
          THEN [Settled(@, "ok") EXCEPT !.pc = "awaitEmbed", !.pipeNo = 0,
                                        !.calls = Append(@, "embed")]
          ELSE [Settled(@, PipelineError) EXCEPT
                    !.pc = "getEmbeddingSettled", !.pipeNo = 0]]
    /\ UNCHANGED <<rev, pipelineCalls, collection, collectionCalls, hits,
                   health>>

\* await embedder(text, ...) settles inside getEmbedding, which returns the
\* vector or rejects
EmbedResolve(r, ok) ==
    /\ Quiet
    /\ req[r].pc = "awaitEmbed"
    /\ req' = [req EXCEPT ![r] =
          [Settled(@, IF ok THEN "ok" ELSE EmbedError) EXCEPT
              !.pc = "getEmbeddingSettled"]]
    /\ UNCHANGED <<rev, embedder, pipelineCalls, collection, collectionCalls,
                   hits, health>>

\* the handler resumes from await getEmbedding(question): its catch block,
\* or getCollection is entered
AfterGetEmbedding(r) ==
    /\ Quiet
    /\ req[r].pc = "getEmbeddingSettled"
    /\ IF LastOutcome(req[r]) = "ok"
       THEN /\ collection = 0 => collectionCalls < MaxInits
            /\ req' = [req EXCEPT ![r] = getCollectionStart(@)]
            /\ collectionCalls' =
                  IF collection = 0 THEN collectionCalls + 1
                  ELSE collectionCalls
       ELSE /\ req' = [req EXCEPT ![r] =
                  EmbeddingFailed(@, LastOutcome(req[r]))]
            /\ UNCHANGED collectionCalls
    /\ UNCHANGED <<rev, embedder, pipelineCalls, collection, hits, health>>

\* await chroma.getOrCreateCollection(...) settles inside getCollection:
\* the handle is stored and returned, or getCollection rejects
CollectionResolve(r, ok) ==
    /\ Quiet
    /\ req[r].pc = "awaitCollection"
    /\ collection' = CollectionAfter(r, ok)
    /\ req' = [req EXCEPT ![r] =
          [Settled(@, IF ok THEN "ok" ELSE ChromaError) EXCEPT
              !.pc = "getCollectionSettled", !.colNo = 0]]
    /\ UNCHANGED <<rev, embedder, pipelineCalls, collectionCalls, hits,
                   health>>

\* the handler resumes from await getCollection(): col.query is called, or
\* the exception is handled
AfterGetCollection(r) ==
    /\ Quiet
    /\ req[r].pc = "getCollectionSettled"
    /\ req' = [req EXCEPT ![r] =
          IF LastOutcome(req[r]) = "ok" THEN queryStart(@)
          ELSE RetrievalFailed(@, LastOutcome(req[r]))]
    /\ UNCHANGED <<rev, embedder, pipelineCalls, collection, collectionCalls,
                   hits, health>>

\* await col.query(...) settles
QueryResolve(r, ok, result) ==
    /\ Quiet
    /\ req[r].pc = "awaitQuery"
    /\ req' = [req EXCEPT ![r] =
          IF ok THEN AfterQuery(Settled(@, "ok"), result)
          ELSE RetrievalFailed(Settled(@, QueryError), QueryError)]
    /\ UNCHANGED <<rev, embedder, pipelineCalls, collection, collectionCalls,
                   hits, health>>

\* await groq.chat.completions.create(...) settles; on success the answer
\* is sent and logQuery is called
LLMResolve(r, ok, mkdirOk) ==
    /\ Quiet
    /\ req[r].pc = "awaitLLM"
    /\ req' = [req EXCEPT ![r] =
          IF ok THEN Success(Settled(@, "ok"), LLMAnswer, mkdirOk)
          ELSE Catch(Settled(@, GroqError), GroqError)]
    /\ UNCHANGED <<rev, embedder, pipelineCalls, collection, collectionCalls,
                   hits, health>>

\* fs.appendFile calls back: () => {} ignores the error
AppendDone(r, ok) ==
    /\ req[r].append = "pending"
    /\ req' = [req EXCEPT ![r].append = IF ok THEN "written" ELSE "failed"]
    /\ UNCHANGED <<rev, embedder, pipelineCalls, collection, collectionCalls,
                   hits, health>>

\* the request is over and its slot is free again
Close(r) ==
    /\ req[r].pc = "done"
    /\ req[r].append # "pending"
    /\ req' = [req EXCEPT ![r] = IdleReq]
    /\ UNCHANGED <<rev, embedder, pipelineCalls, collection, collectionCalls,
                   hits, health>>

\* an arrival among the first MaxAsks of the caller's window, which are
\* below the limit
AskWithinBound(r, c, question) ==
    /\ hits[c] < MaxAsks
    /\ Ask(r, c, question)

Progress(r) ==
    \/ \E ok \in BOOLEAN : PipelineResolve(r, ok)
    \/ \E ok \in BOOLEAN : EmbedResolve(r, ok)
    \/ AfterGetEmbedding(r)
    \/ \E ok \in BOOLEAN : CollectionResolve(r, ok)
    \/ AfterGetCollection(r)
    \/ \E ok \in BOOLEAN, result \in QueryResults : QueryResolve(r, ok, result)
    \/ \E ok \in BOOLEAN, mkdirOk \in BOOLEAN : LLMResolve(r, ok, mkdirOk)
    \/ \E ok \in BOOLEAN : AppendDone(r, ok)
    \/ Close(r)

\* concurrent requests of one caller within one window of the limiter
Next ==
    \/ \E r \in Reqs, question \in Questions :
          AskWithinBound(r, "ip1", question)
    \/ \E r \in Reqs : Progress(r)

Spec == Init /\ [][Next]_vars

\* questions around the limits of validateQuestion: l blanks, c letters,
\* r tabs
Padded(l, c, r) == JSString(Rep(" ", l) \o Rep("a", c) \o Rep("\t", r))

MaxPad == 2

BoundaryQuestions ==
    {JSUndefined, JSNull, JSNumber(0), JSNumber(7)} \cup
    { Padded(l, c, r) :
        l \in 0..MaxPad,
        c \in {0, 1} \cup ((MaxQuestionLen - 2)..(MaxQuestionLen + 1)),
        r \in {0, 1} \cup ((MaxQuestionLen - 1)..(MaxQuestionLen + 1)) } \cup
    { JSString(<<w>>) : w \in Whitespace } \cup
    { JSString(<<w, "a", w>>) : w \in Whitespace } \cup
    { JSString(Rep(NBSP, MaxQuestionLen) \o <<"a">>),
      JSString(<<"a">> \o Rep("\\u2028", MaxQuestionLen - 1)),
      QBlankUnicode }

\* validateQuestion alone: one request at a time, validated and, when
\* rejected, closed
NextValidate ==
    \/ \E question \in BoundaryQuestions : AskWithinBound(1, "ip1", question)
    \/ Close(1)

SpecValidate == Init /\ [][NextValidate]_vars

\* the limiter: one request at a time, two callers, up to the limit and over
NextRate ==
    \/ \E question \in RateQuestions : Ask(1, "ip1", question)
    \/ \E question \in RateQuestions : AskWithinBound(1, "ip2", question)
    \/ AskLimited(1, "ip1")
    \/ \E c \in Callers : WindowReset(c)
    \/ \E c \in Callers : Health(c)
    \/ Progress(1)

SpecRate == Init /\ [][NextRate]_vars

(***************************************************************************)
(* Properties.                                                             *)
(***************************************************************************)
Handled == {r \in Reqs : req[r].validated}

\* calls[i] = call settled with outcome
SettledWith(q, call, outcome) ==
    \E i \in 1..Len(q.outcomes) : q.calls[i] = call /\ q.outcomes[i] = outcome

Called(q, call) == \E i \in 1..Len(q.calls) : q.calls[i] = call

\* what the spec calls a malformed question
InvalidInput(v) ==
    \/ v.t # "string"
    \/ \A i \in 1..Len(v.s) : v.s[i] \in Whitespace
    \/ Len(v.s) > 500

OnlyBody(q, body) == q.responses = <<body>>

\* C1: a question that is not a string, is empty after trimming or is
\* longer than 500 characters gets a non-null reason from validateQuestion,
\* the handler answers 400 with that reason, and no embedding, vector-store
\* or completion call is made for the request.
C1_InvalidRejected ==
    \A r \in Handled :
        InvalidInput(req[r].question) =>
            /\ validateQuestion(req[r].question) # NULL
            /\ req[r].pc = "done"
            /\ \E reason \in {"Pregunta inválida", "Pregunta vacía",
                              "Pregunta demasiado larga"} :
                  /\ reason = validateQuestion(req[r].question)
                  /\ OnlyBody(req[r], Body(400, reason, Absent, AbsentSeq,
                                           Absent, AbsentSeq, Absent))
            /\ req[r].calls = <<>>

C1_Witness ==
    \E r \in Handled :
        /\ req[r].question = QTooLong
        /\ req[r].pc = "done"
        /\ req[r].responses[1].status = 400

\* C2: in server.js, when the vector query succeeds with zero documents
\* (also when the result has no documents field) the answer is 200 with the
\* fixed text and sources = [], and the completion provider is not called.
C2_NoDocuments ==
    \A r \in Handled :
        ( /\ rev = "server"
          /\ SettledWith(req[r], "query", "ok")
          /\ \/ ~req[r].result.hasDocuments
             \/ Len(req[r].result.documents) = 0
             \/ Len(req[r].result.documents[1]) = 0 ) =>
            /\ req[r].pc = "done"
            /\ OnlyBody(req[r],
                  Body(200, Absent, Absent, AbsentSeq,
                       "No se encontró información relevante en la base documental.",
                       <<>>, Absent))
            /\ ~Called(req[r], "llm")

C2_Witness ==
    \E r \in Handled :
        /\ rev = "server"
        /\ SettledWith(req[r], "query", "ok")
        /\ ~req[r].result.hasDocuments
        /\ req[r].pc = "done"
        /\ req[r].responses[1].status = 200

RetrievalRaised(q) ==
    \/ SettledWith(q, "getOrCreateCollection", ChromaError)
    \/ SettledWith(q, "query", QueryError)

\* getEmbedding or getCollection has settled and the handler, which awaits
\* it, has not resumed yet: nothing was sent and no further call was made
Unresumed(q) ==
    /\ q.pc \in {"getEmbeddingSettled", "getCollectionSettled"}
    /\ q.jsonCalls = <<>>
    /\ Len(q.calls) = Len(q.outcomes)
    /\ ~q.errorLogged
    /\ ~q.warned

\* C3: when getCollection or collection.query raises, the fallback-tolerant
\* handler still calls the completion and its 200 response has
\* mode = "llm-only" and sources = []; the handler of server.js ends the
\* request with 503 and calls no completion.
C3_RetrievalFailure ==
    \A r \in Handled :
        RetrievalRaised(req[r]) =>
            IF Unresumed(req[r]) THEN ~Called(req[r], "llm")
            ELSE IF rev = "fallback"
            THEN /\ Called(req[r], "llm")
                 /\ \A i \in 1..Len(req[r].responses) :
                       req[r].responses[i].status = 200 =>
                          /\ req[r].responses[i].mode = "llm-only"
                          /\ req[r].responses[i].sources = <<>>
                 /\ SettledWith(req[r], "llm", "ok") =>
                       /\ Len(req[r].responses) = 1
                       /\ req[r].responses[1].status = 200
            ELSE /\ req[r].pc = "done"
                 /\ Len(req[r].responses) = 1
                 /\ req[r].responses[1].status = 503
                 /\ ~Called(req[r], "llm")

C3_Witness ==
    \E r \in Handled :
        /\ rev = "fallback"
        /\ SettledWith(req[r], "query", QueryError)
        /\ req[r].pc = "done"
        /\ req[r].responses[1].mode = "llm-only"

\* where document i starts in the context, counted from 0
RECURSIVE DocOffset(_, _)
DocOffset(docs, i) ==
    IF i = 1 THEN 0 ELSE DocOffset(docs, i - 1) + Len(docs[i - 1]) + 2

\* C4: with k >= 1 retrieved documents the user message of the completion
\* is "CONTEXTO:\n" d1 "\n\n" ... "\n\n" dk "\n\nPREGUNTA:\n" question:
\* every document, in the order the store returned them, a blank line
\* between them, then the question as it was sent.
C4_PromptLayout ==
    \A r \in Handled :
        ( /\ SettledWith(req[r], "query", "ok")
          /\ Called(req[r], "llm")
          /\ req[r].result.hasDocuments
          /\ Len(req[r].result.documents) > 0
          /\ Len(req[r].result.documents[1]) >= 1 ) =>
            LET docs == req[r].result.documents[1]
                k == Len(docs)
                m == req[r].llmUser
                question == req[r].question.s
                ctxLen == DocOffset(docs, k) + Len(docs[k])
                at(i) == 2 + DocOffset(docs, i)
            IN  /\ Len(m) = 2 + ctxLen + 4 + Len(question)
                /\ SubSeq(m, 1, 2) = <<"CONTEXTO:", "\n">>
                /\ \A i \in 1..k :
                      /\ SubSeq(m, at(i) + 1, at(i) + Len(docs[i])) = docs[i]
                      /\ i < k =>
                            SubSeq(m, at(i) + Len(docs[i]) + 1,
                                      at(i) + Len(docs[i]) + 2) = <<"\n", "\n">>
                /\ SubSeq(m, 2 + ctxLen + 1, 2 + ctxLen + 4) =
                      <<"\n", "\n", "PREGUNTA:", "\n">>
                /\ SubSeq(m, 2 + ctxLen + 5, Len(m)) = question

C4_Witness ==
    \E r \in Handled :
        /\ SettledWith(req[r], "query", "ok")
        /\ Called(req[r], "llm")
        /\ req[r].result.hasDocuments
        /\ req[r].result.documents = << <<D3, D1, D2>> >>
        /\ req[r].question = QValid

CollaboratorErrors ==
    {PipelineError, EmbedError, ChromaError, QueryError, GroqError}

Raised(q) == {q.outcomes[i] : i \in 1..Len(q.outcomes)} \ {"ok"}

ErrorBody(e) ==
    IF rev = "server"
    THEN Body(503, "Servicio temporalmente no disponible", e,
              AbsentSeq, Absent, AbsentSeq, Absent)
    ELSE Body(500, "Error interno", e, AbsentSeq, Absent, AbsentSeq, Absent)

\* C5 as claimed: any exception of the embedding call, the collection
\* fetch, the vector query or the completion makes the handler log it and
\* answer 503 (server.js) or 500 (other revisions) with the generic error
\* and detail = the exception's message, and nothing else is sent.
C5_AnyExceptionIsServerError ==
    \A r \in Handled :
        \A e \in Raised(req[r]) :
            \/ Unresumed(req[r])
            \/ /\ req[r].pc = "done"
               /\ req[r].errorLogged
               /\ OnlyBody(req[r], ErrorBody(e))

\* C5 amended: that holds of server.js for all four calls, and of the
\* fallback-tolerant revision for the embedding and the completion call;
\* there an exception of the collection fetch or the vector query is
\* absorbed by the inner catch.
C5_UnhandledExceptionIsServerError ==
    \A r \in Handled :
        \A e \in Raised(req[r]) :
            (rev = "server" \/ e \notin {ChromaError, QueryError}) =>
                /\ e \in CollaboratorErrors
                /\ \/ Unresumed(req[r])
                   \/ /\ req[r].pc = "done"
                      /\ req[r].errorLogged
                      /\ OnlyBody(req[r], ErrorBody(e))

C5_Witness ==
    \E r \in Handled :
        /\ rev = "server"
        /\ SettledWith(req[r], "query", QueryError)
        /\ req[r].pc = "done"
        /\ req[r].responses[1].status = 503

\* C6 as claimed: every request that reaches the handler attempts exactly
\* one logQuery write, whatever its outcome (400, 200 without documents,
\* 200 with an answer, 500/503).
C6_OneLogWritePerRequest ==
    \A r \in Handled :
        (rev = "server" /\ req[r].pc = "done") => req[r].logCalls = 1

\* C7 as claimed: when the log write fails after a successful completion
\* (mkdirSync throws or the append reports an error) the caller has
\* exactly the 200 response and no error response is generated.
C7_LogFailureIsSwallowed ==
    \A r \in Handled :
        ( /\ rev = "server"
          /\ SettledWith(req[r], "llm", "ok")
          /\ req[r].mkdir = "failed" \/ req[r].append = "failed" ) =>
            /\ Len(req[r].responses) = 1
            /\ req[r].responses[1].status = 200
            /\ req[r].jsonCalls = <<200>>
            /\ ~req[r].rejected

\* C8 as claimed: under any interleaving of requests the pipeline is
\* constructed at most once.
C8_PipelineConstructedOnce == rev = "server" => pipelineCalls <= 1

\* C9: with max 30 per window, request 31 and later of a caller get the
\* limiter's 429 and reach neither validateQuestion nor an external call,
\* requests 1..30 all reach the handler, and GET /health is neither counted
\* nor limited.
C9_RateLimit ==
    /\ [](\A r \in Reqs :
            req[r].pc # "idle" =>
                IF req[r].hitNo >= 31
                THEN /\ OnlyBody(req[r], LimitedBody)
                     /\ ~req[r].validated
                     /\ req[r].calls = <<>>
                ELSE /\ req[r].validated
                     /\ \A i \in 1..Len(req[r].responses) :
                           req[r].responses[i].status # 429)
    /\ [](\A c \in Callers : (Quiet /\ health < MaxHealth) => ENABLED Health(c))
    /\ [][health' # health => hits' = hits]_vars

C9_Witness ==
    \E r \in Reqs :
        /\ req[r].pc = "done"
        /\ req[r].ip = "ip1"
        /\ req[r].hitNo = 31
        /\ req[r].responses[1].status = 429
        /\ hits["ip2"] > 0
        /\ health > 0

\* C10 as claimed: {question: ""} is answered 400 {error: "Pregunta vacía"}
\* and no network call is made.
C10_EmptyStringIsVacia ==
    \A r \in Handled :
        (rev = "server" /\ req[r].question = JSString(<<>>)) =>
            /\ OnlyBody(req[r], Body(400, "Pregunta vacía", Absent, AbsentSeq,
                                     Absent, AbsentSeq, Absent))
            /\ req[r].calls = <<>>

\* C10 amended: {question: ""} is answered 400 {error: "Pregunta inválida"}
\* (the empty string fails the first rule, !question), and no network call
\* is made.
C10_EmptyStringIsInvalida ==
    \A r \in Handled :
        (rev = "server" /\ req[r].question = JSString(<<>>)) =>
            /\ req[r].pc = "done"
            /\ OnlyBody(req[r], Body(400, "Pregunta inválida", Absent,
                                     AbsentSeq, Absent, AbsentSeq, Absent))
            /\ req[r].calls = <<>>

C10_Witness ==
    \E r \in Handled :
        /\ rev = "server"
        /\ req[r].question = JSString(<<>>)
        /\ req[r].pc = "done"
        /\ Len(req[r].responses) = 1

\* request r entered getCollection in this step
EntersGetCollection(r) ==
    /\ req[r].pc = "getEmbeddingSettled"
    /\ req'[r].pc \in {"awaitCollection", "getCollectionSettled"}

\* C11 as claimed: once collection is non-null it is never assigned again,
\* under any interleaving of concurrent requests.
C11_CollectionAssignedOnce ==
    [][(rev = "server" /\ collection # 0) => collection' = collection]_vars

\* C11 amended: once collection is non-null it never becomes null again and
\* every getCollection call that starts afterwards returns the cached
\* handle without calling chroma.getOrCreateCollection; it is assigned
\* again only when a getOrCreateCollection call that started while it was
\* still null resolves.
C11_CollectionCachedAfterFirstUse ==
    [][ /\ collection # 0 => collection' # 0
        /\ \A r \in Reqs :
              (collection # 0 /\ EntersGetCollection(r)) =>
                  /\ req'[r].pc = "getCollectionSettled"
                  /\ req'[r].calls = req[r].calls
                  /\ collectionCalls' = collectionCalls
                  /\ collection' = collection
        /\ collection' # collection =>
              \E r \in Reqs :
                  /\ req[r].pc = "awaitCollection"
                  /\ req[r].colNo <= collectionCalls
                  /\ collection' = req[r].colNo
                  /\ req'[r].pc = "getCollectionSettled" ]_vars

C11_Witness ==
    \E r \in Handled :
        /\ rev = "server"
        /\ collection # 0
        /\ req[r].pc = "awaitQuery"
        /\ ~Called(req[r], "getOrCreateCollection")

\* the reason the validation rules give, taken in order: kind, emptiness,
\* length
FirstFailingRule(v) ==
    IF v.t # "string" \/ v = JSString(<<>>) THEN "Pregunta inválida"
    ELSE IF \A i \in 1..Len(v.s) : v.s[i] \in Whitespace THEN "Pregunta vacía"
    ELSE IF Len(v.s) > 500 THEN "Pregunta demasiado larga"
    ELSE NULL

\* C12: validateQuestion returns the first failing reason in the order kind,
\* emptiness, length: not a string or falsy is "Pregunta inválida", a
\* whitespace-only string is "Pregunta vacía" whatever its length, a string
\* with a non-whitespace character and untrimmed length above 500 is
\* "Pregunta demasiado larga", and null is returned exactly for a string
\* with a non-whitespace character and untrimmed length at most 500; the
\* handler answers 400 with the reason, or goes on to the embedding.
C12_ValidationOrder ==
    \A r \in Handled :
        LET v == req[r].question
            reason == validateQuestion(v)
        IN  /\ reason = FirstFailingRule(v)
            /\ reason = NULL <=>
                  /\ v.t = "string"
                  /\ \E i \in 1..Len(v.s) : v.s[i] \notin Whitespace
                  /\ Len(v.s) <= 500
            /\ reason # NULL =>
                  /\ req[r].pc = "done"
                  /\ OnlyBody(req[r], Body(400, reason, Absent, AbsentSeq,
                                           Absent, AbsentSeq, Absent))
            /\ reason = NULL => req[r].calls # <<>>

C12_Witness ==
    \E r \in Handled :
        /\ req[r].question = Padded(0, 0, MaxQuestionLen + 1)
        /\ req[r].pc = "done"
        /\ req[r].responses[1].error = "Pregunta vacía"

\* position of a collaborator call in the handler's text
CallRank(call) ==
    CASE call = "pipeline" -> 1
      [] call = "embed" -> 2
      [] call = "getOrCreateCollection" -> 3
      [] call = "query" -> 4
      [] call = "llm" -> 5

Awaiting == {"awaitPipeline", "awaitEmbed", "awaitCollection", "awaitQuery",
             "awaitLLM"}

\* C13: within one request of server.js the collaborators are called in the
\* order embedding, vector query, completion, each at most once, each only
\* after every earlier call of the request returned successfully (no retry
\* after a failure), and at most one call of the request is in flight.
C13_CallsInOrder ==
    \A r \in Handled :
        LET q == req[r]
        IN  rev = "server" =>
              /\ \A i, j \in 1..Len(q.calls) :
                    i < j => CallRank(q.calls[i]) < CallRank(q.calls[j])
              /\ Called(q, "llm") => Called(q, "query")
              /\ Called(q, "query") => Called(q, "embed")
              /\ Len(q.outcomes) =
                    IF q.pc \in Awaiting THEN Len(q.calls) - 1
                    ELSE Len(q.calls)
              /\ \A i \in 1..(Len(q.calls) - 1) :
                    /\ i <= Len(q.outcomes)
                    /\ q.outcomes[i] = "ok"

C13_Witness ==
    \E r \in Handled :
        /\ rev = "server"
        /\ req[r].pc = "done"
        /\ req[r].calls =
              <<"pipeline", "embed", "getOrCreateCollection", "query", "llm">>
        /\ \A i \in 1..5 : req[r].outcomes[i] = "ok"

\* the query returned and the handler holds no document
NothingRetrieved(q) ==
    /\ SettledWith(q, "query", "ok")
    /\ Len(FirstOrEmpty(q.result.hasDocuments, q.result.documents)) = 0

\* C14: in the fallback-tolerant handler, when the retrieval succeeds with
\* zero documents the response is 200 with the fixed "no relevant
\* information" answer and empty sources, sent at once, and the completion
\* provider is not called.
C14_FallbackNoDocuments ==
    \A r \in Handled :
        (rev = "fallback" /\ NothingRetrieved(req[r])) =>
            /\ req[r].pc = "done"
            /\ Len(req[r].responses) = 1
            /\ req[r].responses[1].status = 200
            /\ req[r].responses[1].answer = NoDocsAnswer
            /\ req[r].responses[1].sources = <<>>
            /\ ~Called(req[r], "llm")

EmbeddingRaised(q) ==
    \/ SettledWith(q, "pipeline", PipelineError)
    \/ SettledWith(q, "embed", EmbedError)

\* C15: in the fallback-tolerant handler an exception of getEmbedding is not
\* absorbed: the request ends with the generic 500 whose detail is the
\* exception message, the vector store and the completion provider are not
\* called, and no "llm-only" response is produced.
C15_EmbeddingFailureIsFatal ==
    \A r \in Handled :
        (rev = "fallback" /\ EmbeddingRaised(req[r])) =>
            /\ \/ Unresumed(req[r])
               \/ /\ req[r].pc = "done"
                  /\ \E e \in {PipelineError, EmbedError} :
                        /\ Raised(req[r]) = {e}
                        /\ OnlyBody(req[r],
                              Body(500, "Error interno", e, AbsentSeq,
                                   Absent, AbsentSeq, Absent))
            /\ ~Called(req[r], "getOrCreateCollection")
            /\ ~Called(req[r], "query")
            /\ ~Called(req[r], "llm")
            /\ \A i \in 1..Len(req[r].responses) :
                  req[r].responses[i].mode # "llm-only"
            /\ ~req[r].warned

C15_Witness ==
    \E r \in Handled :
        /\ rev = "fallback"
        /\ SettledWith(req[r], "embed", EmbedError)
        /\ req[r].pc = "done"
        /\ req[r].responses[1].status = 500

\* C16: every request that reaches the handler of server.js sends exactly
\* one response: when the handler has finished, on whatever path, it has
\* written one response and has made no second write, and while it is
\* still awaiting a collaborator it has written none.
C16_ExactlyOneResponse ==
    \A r \in Handled :
        rev = "server" =>
            /\ req[r].pc = "done" =>
                  /\ Len(req[r].responses) = 1
                  /\ Len(req[r].jsonCalls) = 1
                  /\ ~req[r].rejected
            /\ req[r].pc \in Awaiting => req[r].jsonCalls = <<>>

\* request r entered getEmbedding in this step
EntersGetEmbedding(r) ==
    /\ req[r].pc = "idle"
    /\ req'[r].pc \in {"awaitPipeline", "awaitEmbed"}

\* the call request r was awaiting raised e in this step
RaisedNow(r, pc, e) ==
    /\ req[r].pc = pc
    /\ Len(req'[r].outcomes) = Len(req[r].outcomes) + 1
    /\ req'[r].outcomes[Len(req'[r].outcomes)] = e

\* C17: a failed lazy initialisation is not cached.  When
\* getOrCreateCollection raises, collection is left as it was (null when it
\* was null); a request entering getCollection while collection is null
\* calls getOrCreateCollection again, and when that call and the rest
\* succeed the request is answered normally.  The same holds for
\* pipeline(...) and embedder in getEmbedding.
C17_FailedInitNotCached ==
    /\ [][ \A r \in Reqs :
             /\ RaisedNow(r, "awaitCollection", ChromaError) =>
                   collection' = collection
             /\ RaisedNow(r, "awaitPipeline", PipelineError) =>
                   embedder' = embedder
             /\ (collection = 0 /\ EntersGetCollection(r)) =>
                   /\ req'[r].pc = "awaitCollection"
                   /\ req'[r].calls =
                         Append(req[r].calls, "getOrCreateCollection")
                   /\ collectionCalls' = collectionCalls + 1
             /\ (embedder = 0 /\ EntersGetEmbedding(r)) =>
                   /\ req'[r].pc = "awaitPipeline"
                   /\ req'[r].calls = <<"pipeline">>
                   /\ pipelineCalls' = pipelineCalls + 1 ]_vars
    /\ [](\A r \in Handled :
             ( /\ rev = "server"
               /\ req[r].colRetry
               /\ req[r].pc = "done"
               /\ Raised(req[r]) = {}
               /\ req[r].mkdir # "failed" ) =>
                 /\ Len(req[r].responses) = 1
                 /\ req[r].responses[1].status = 200
                 /\ req[r].responses[1].answer
                       \in {NoDocsAnswer, LLMAnswer})

C17_Witness ==
    \E r \in Handled :
        /\ rev = "server"
        /\ req[r].colRetry
        /\ collection # 0
        /\ SettledWith(req[r], "getOrCreateCollection", "ok")
        /\ req[r].pc = "done"
        /\ req[r].responses[1].status = 200
        /\ req[r].responses[1].answer = LLMAnswer

====
